---------------------------- MODULE Spec2Model ----------------------------
(***************************************************************************)
(* A model of tclinter (src/src/com.name.winui-as-ttk/tclinter/__init__.py) *)
(* The module is organised by subsystem, each with its own specification:  *)
(*   SpecVar   Variable / Observers / Bounds (the reactive subsystem)      *)
(*   SpecCall  Callable (the callback group)                               *)
(*   SpecTree  sessions and widgets: the ownership tree and its teardown   *)
(*   SpecName  the names of the widgets of the sessions                    *)
(*   SpecSlot  the write-once slots of sessions and widgets                *)
(*   SpecCmd   the command and flag registries of sessions and widgets     *)
(*   SpecRatio Ratio (numerator, denominator, lazily reduced)              *)
(*                                                                         *)
(* Classes.  The write-once setters and the instance tracker read          *)
(* name-mangled attributes of their own class (_HasTcl__tk,                *)
(* _HasTcl__tcl_varname, _HasTclCommands__flags, _HasChildren__children,   *)
(* _HasParent__parent, _HasInstanceTracking__instances), which __Root and  *)
(* BareWidget do not provide: constructing either class as written raises  *)
(* before any state changes (NewRootAsWritten, NewWidgetAsWritten).  The   *)
(* node objects of SpecTree are instances of subclasses that provide these *)
(* attributes (None for the slots), created with the interpreter module    *)
(* bound; every method they run is the repository's.  The repository does  *)
(* not say where the set of the instance tracker lives, so the model       *)
(* leaves it open (tracker): one set in each widget class, or one set in a *)
(* base the widget classes inherit it from.  There are two widget classes, *)
(* Button and Label.                                                       *)
(* Every handler is one atomic action; an exception raised by a handler is *)
(* recorded in the log variable of its subsystem ("ok" when it returned).  *)
(*                                                                         *)
(* Objects.  A session or widget lives as long as something refers to it;  *)
(* when the last reference goes inside an action, the interpreter runs the *)
(* class's __del__ as finalizer inside that action (and ignores what it    *)
(* raises).  Objects kept by a parent/child cycle alone are finalized by   *)
(* the cycle collector (Collect), which runs between operations.  External *)
(* code may also write V.observers and the pool _roots directly.           *)
(***************************************************************************)
EXTENDS Integers, Sequences, FiniteSets, TLC

VARIABLES
    value,      \* Variable.__value of the one Variable V
    observers,  \* V.observers: the keys of the Observers dict, in insertion order
    bstate,     \* per Bounds object: "free" | "live" | "failed"
    bmin,       \* Bounds.__minimum per Bounds object
    bmax,       \* Bounds.__maximum per Bounds object
    invoked,    \* the observers called by the latest operation, in call order
    extobs,     \* the callable external code registered under ExtKey ("none": no entry)
    nchanges,   \* number of keys inserted into and removed from V.observers so far
    vlast,      \* log of the latest reactive operation and how it ended
    cfuncs,     \* the arguments Callable(*args) was built from
    cargs,      \* the arguments the group is invoked with
    ccalls,     \* the calls the invocation made, in order: [fn, args, ret]
    cresult,    \* how the invocation ended: [exc, ret]; exc = "new" before it
    kind,       \* per node object: "free" | "root" | "widget" | "gone" (deallocated)
    built,      \* per node: its constructor returned
    held,       \* per node: the caller holds a reference to the object
    tk,         \* per node: the HasTcl.__tk slot
    varname,    \* per node: the HasTcl.__tcl_varname slot
    commands,   \* per node: the HasTclCommands.__tcl_commands slot (dict keys, in order)
    flags,      \* per node: the HasTclCommands.__tcl_flags attribute (dict keys)
    children,   \* per node: the HasChildren.__children slot
    parent,     \* per node: the HasParent.__parent slot
    derived,    \* per node: its local name was derived from the instance count
    instances,  \* the widgets the instance tracker holds (HasInstanceTracking.__instances)
    cls,        \* per node: the name of the object's class ("" for a free node)
    tracker,    \* where the tracker's set lives: "class" | "base"
    roots,      \* the module's pool of sessions, _roots
    cmdseq,     \* number of command names generated so far
    tklog,      \* the native operations the latest operation issued, in order
    tlast,      \* log of the latest tree operation and how it ended
    rnum,       \* Ratio.__numerator of the one Ratio
    rden,       \* Ratio.__denominator
    rreduced,   \* Ratio.__reduced
    rlast       \* log of the latest Ratio operation and how it ended

varVars == <<value, observers, bstate, bmin, bmax, invoked, extobs, nchanges, vlast>>

callVars == <<cfuncs, cargs, ccalls, cresult>>

treeVars == <<kind, built, held, tk, varname, commands, flags, children, parent,
              derived, instances, cls, tracker, roots, cmdseq, tklog, tlast>>

ratioVars == <<rnum, rden, rreduced, rlast>>

vars == <<varVars, callVars, treeVars, ratioVars>>

--------------------------------------------------------------------------
(* Bounds of the model *)

\* integers written to V and used as bounds are 0..MaxInt
MaxInt == 1
\* number of Bounds objects constructed on V
MaxBounds == 1
\* number of keys inserted into and removed from V.observers over a run
MaxChanges == 2
\* number of arguments a callback group is built from
MaxFuncs == 3
\* number of arguments a callback group is invoked with
MaxArgs == 1
\* number of session and widget objects
MaxNodes == 4
\* number of command names registered over a run
MaxCmds == 2
\* number of node objects in the runs of SpecSlot and SpecCmd, and number of
\* nodes beyond which SpecName constructs no further session
MaxOwners == 2
\* number of node objects in the runs of SpecTree
MaxTreeNodes == 3
\* integers written to the components of a Ratio are -MaxRatio..MaxRatio
MaxRatio == 4

--------------------------------------------------------------------------
(* Python values: None, int and str, each a <<type, payload>> pair *)

None == <<"NoneType", 0>>
PyInt(n) == <<"int", n>>
PyStr(n) == <<"str", n>>

Ints == {PyInt(n) : n \in 0..MaxInt}
Strs == {PyStr(0)}
Values == Ints \cup Strs
OptValues == Values \cup {None}

TypeOf(v) == v[1]

\* isinstance(val, type(cur)) for the value types of the model
IsInstanceOfTypeOf(val, cur) == TypeOf(val) = TypeOf(cur)

\* a < b and a <= b on Python values: "T", "F", or "TypeError" when the
\* operands are not ordered (None with anything, int with str)
Comparable(a, b) == TypeOf(a) = TypeOf(b) /\ TypeOf(a) \in {"int", "str"}
PyLt(a, b) == IF ~Comparable(a, b) THEN "TypeError"
              ELSE IF a[2] < b[2] THEN "T" ELSE "F"
PyLe(a, b) == IF ~Comparable(a, b) THEN "TypeError"
              ELSE IF a[2] <= b[2] THEN "T" ELSE "F"

BoundsIds == 1..MaxBounds

--------------------------------------------------------------------------
(* Bounds.enforce: not (minimum <= enforces.value <= maximum) raises       *)
(* RuntimeError; the chained comparison evaluates minimum <= value first   *)
(* and value <= maximum only when the first is true.                       *)

ChainedLe(lo, v, hi) ==
    LET c1 == PyLe(lo, v) IN
    IF c1 = "TypeError" THEN "TypeError"
    ELSE IF c1 = "F" THEN "F"
    ELSE PyLe(v, hi)

\* enforce with the upper bound left unchecked
enforceLowerOnly(lo, v, hi) ==
    IF PyLe(lo, v) = "TypeError" \/ PyLe(v, hi) = "TypeError" THEN "TypeError"
    ELSE IF PyLe(lo, v) = "F" THEN "RuntimeError"
    ELSE "ok"

enforce(lo, v, hi) ==
    LET c == ChainedLe(lo, v, hi) IN
    IF c = "TypeError" THEN "TypeError"
    ELSE IF c = "F" THEN "RuntimeError"
    ELSE "ok"

\* The keys of V.observers are strings.
\* the keys external code passes to V.observers[key] = f: the int 0 and the
\* string "0"
KeyArgs == {<<"int", 0>>, <<"str", "0">>}
\* Observers.__setitem__: if not isinstance(key, str): key = str(key)
StrKey(key) == IF key[1] = "str" THEN key[2] ELSE ToString(key[2])
\* the key the dict holds for external code: "0", for either argument
ExtKey == "0"
\* the key a Bounds object registers under: id(self), an int, which
\* __setitem__ turns into a string (the id of the object b is written b)
BoundsKey(b) == StrKey(<<"int", b>>)
\* the Bounds object whose enforce is stored under the key k
BoundsOf(k) == CHOOSE b \in BoundsIds : BoundsKey(b) = k
\* what external code stores: a callable that returns, a callable that
\* raises KeyError, and a value that is not callable
ObserverArgs == {"quiet", "boom", "data"}
callableObserver(f) == f # "data"

\* the outcome of the observer under key k when called with V.value = v
CallObserver(k, v) ==
    IF k = ExtKey THEN (IF extobs = "boom" THEN "KeyError" ELSE "ok")
    ELSE enforce(bmin[BoundsOf(k)], v, bmax[BoundsOf(k)])

\* Observers.__call__() with no arguments: the dict's items are called in
\* insertion order; the first exception leaves the loop.  The result is the
\* sequence of observers that were called.
RECURSIVE Broadcast(_, _)
Broadcast(obs, v) ==
    IF obs = <<>> THEN <<>>
    ELSE IF CallObserver(Head(obs), v) # "ok" THEN <<Head(obs)>>
    ELSE <<Head(obs)>> \o Broadcast(Tail(obs), v)

BroadcastExc(obs, v) ==
    LET called == Broadcast(obs, v) IN
    IF called = <<>> THEN "ok"
    ELSE CallObserver(called[Len(called)], v)

--------------------------------------------------------------------------
(* Bounds.minimum / Bounds.maximum setters, as functions of the object's   *)
(* current bounds and V's current value: the exception raised, or "ok"     *)

\* the minimum setter that compares against the old minimum instead of the maximum
minimumExcNoOrder(val, curmax, cur) ==
    IF ~IsInstanceOfTypeOf(val, cur) THEN "TypeError" ELSE "ok"

minimumExc(val, curmax, cur) ==
    IF ~IsInstanceOfTypeOf(val, cur) THEN "TypeError"
    ELSE IF curmax # None
         THEN (IF PyLt(curmax, val) = "TypeError" THEN "TypeError"
               ELSE IF PyLt(curmax, val) = "T" THEN "ValueError" ELSE "ok")
         ELSE "ok"

\* the maximum setter without the interval-ordering check
maximumExcNoOrder(val, curmin, cur) ==
    IF ~IsInstanceOfTypeOf(val, cur) THEN "TypeError" ELSE "ok"

maximumExc(val, curmin, cur) ==
    IF ~IsInstanceOfTypeOf(val, cur) THEN "TypeError"
    ELSE IF curmin # None
         THEN (IF PyLt(val, curmin) = "TypeError" THEN "TypeError"
               ELSE IF PyLt(val, curmin) = "T" THEN "ValueError" ELSE "ok")
         ELSE "ok"

--------------------------------------------------------------------------
(* Initial state: V = Variable(value=v0); no Bounds constructed yet *)

VLog(name, obj, lo, hi, exc) ==
    [name |-> name, obj |-> obj, lo |-> lo, hi |-> hi, exc |-> exc]

InitVarVars ==
    /\ value \in Values
    /\ observers = <<>>
    /\ bstate = [b \in BoundsIds |-> "free"]
    /\ bmin = [b \in BoundsIds |-> None]
    /\ bmax = [b \in BoundsIds |-> None]
    /\ invoked = <<>>
    /\ extobs = "none"
    /\ nchanges = 0
    /\ vlast = VLog("Variable", 0, value, None, "ok")

\* V.value = v  (Variable.value setter): store, then broadcast
WriteValue(v) ==
    /\ value' = v
    /\ invoked' = Broadcast(observers, v)
    /\ vlast' = VLog("write", 0, v, None, BroadcastExc(observers, v))
    /\ UNCHANGED <<observers, bstate, bmin, bmax, extobs, nchanges>>

\* Bounds(V, lo, hi): register self.enforce under id(self), then assign the
\* bounds that were supplied; an exception leaves the registration in place
NewBounds(b, lo, hi) ==
    /\ bstate[b] = "free"
    /\ \A c \in BoundsIds : c < b => bstate[c] # "free"
    /\ nchanges < MaxChanges
    /\ nchanges' = nchanges + 1
    /\ observers' = Append(observers, BoundsKey(b))
    /\ LET e1 == IF lo # None THEN minimumExc(lo, None, value) ELSE "ok"
           m1 == IF lo # None /\ e1 = "ok" THEN lo ELSE None
           e2 == IF e1 # "ok" THEN e1
                 ELSE IF hi # None THEN maximumExc(hi, m1, value) ELSE "ok"
           m2 == IF hi # None /\ e2 = "ok" THEN hi ELSE None
       IN /\ bmin' = [bmin EXCEPT ![b] = m1]
          /\ bmax' = [bmax EXCEPT ![b] = m2]
          /\ bstate' = [bstate EXCEPT ![b] = IF e2 = "ok" THEN "live" ELSE "failed"]
          /\ vlast' = VLog("Bounds", b, lo, hi, e2)
    /\ invoked' = <<>>
    /\ UNCHANGED <<value, extobs>>

\* b.minimum = val
SetMinimum(b, val) ==
    /\ bstate[b] = "live"
    /\ LET e == minimumExc(val, bmax[b], value) IN
       /\ bmin' = [bmin EXCEPT ![b] = IF e = "ok" THEN val ELSE @]
       /\ vlast' = VLog("minimum", b, val, None, e)
    /\ invoked' = <<>>
    /\ UNCHANGED <<value, observers, bstate, bmax, extobs, nchanges>>

\* b.maximum = val
SetMaximum(b, val) ==
    /\ bstate[b] = "live"
    /\ LET e == maximumExc(val, bmin[b], value) IN
       /\ bmax' = [bmax EXCEPT ![b] = IF e = "ok" THEN val ELSE @]
       /\ vlast' = VLog("maximum", b, None, val, e)
    /\ invoked' = <<>>
    /\ UNCHANGED <<value, observers, bstate, bmin, extobs, nchanges>>

\* V.observers[key] = f from external code (Observers.__setitem__):
\* ValueError unless f is callable; the key is coerced to str; an existing
\* entry keeps its place in the dict
SetObserver(key, f) ==
    /\ IF callableObserver(f)
       THEN /\ IF \E i \in 1..Len(observers) : observers[i] = StrKey(key)
               THEN UNCHANGED <<observers, nchanges>>
               ELSE /\ nchanges < MaxChanges
                    /\ nchanges' = nchanges + 1
                    /\ observers' = Append(observers, StrKey(key))
            /\ extobs' = f
            /\ vlast' = VLog("setobserver", StrKey(key), None, None, "ok")
       ELSE /\ vlast' = VLog("setobserver", StrKey(key), None, None, "ValueError")
            /\ UNCHANGED <<observers, extobs, nchanges>>
    /\ invoked' = <<>>
    /\ UNCHANGED <<value, bstate, bmin, bmax>>

\* V.observers.pop(k) from external code (dict.pop): KeyError when k is no
\* key of the dict
PopObserver(k) ==
    /\ k = ExtKey \/ (\E b \in BoundsIds : k = BoundsKey(b) /\ bstate[b] # "free")
    /\ IF \E i \in 1..Len(observers) : observers[i] = k
       THEN /\ nchanges < MaxChanges
            /\ nchanges' = nchanges + 1
            /\ observers' = SelectSeq(observers, LAMBDA x : x # k)
            /\ extobs' = IF k = ExtKey THEN "none" ELSE extobs
            /\ vlast' = VLog("pop", k, None, None, "ok")
       ELSE /\ vlast' = VLog("pop", k, None, None, "KeyError")
            /\ UNCHANGED <<observers, extobs, nchanges>>
    /\ invoked' = <<>>
    /\ UNCHANGED <<value, bstate, bmin, bmax>>

NextVarVars ==
    \/ \E key \in KeyArgs, f \in ObserverArgs : SetObserver(key, f)
    \/ \E k \in {BoundsKey(b) : b \in BoundsIds} \cup {ExtKey} : PopObserver(k)
    \/ \E v \in Values : WriteValue(v)
    \/ \E b \in BoundsIds, lo \in OptValues, hi \in OptValues : NewBounds(b, lo, hi)
    \/ \E b \in BoundsIds, val \in OptValues : SetMinimum(b, val)
    \/ \E b \in BoundsIds, val \in OptValues : SetMaximum(b, val)

--------------------------------------------------------------------------
(* Callable: a group of callables behind one invocation interface          *)

\* The things a group is built from.  "inc", "len" and "none" are callables
\* taking *a: inc returns the tuple of its arguments, each plus one; len
\* returns the int len(a); none returns None.  "data" is not callable.
Items == {"inc", "len", "none", "data"}
callable(item) == item # "data"

\* return values: a tuple of ints, an int, or None
RetTuple(t) == <<"tuple", t>>

RECURSIVE SeqsUpTo(_, _)
SeqsUpTo(S, n) ==
    IF n = 0 THEN {<<>>}
    ELSE LET shorter == SeqsUpTo(S, n - 1) IN
         shorter \cup {Append(q, x) : q \in {r \in shorter : Len(r) = n - 1}, x \in S}

ArgTuples == SeqsUpTo({0, 1}, MaxArgs)
ItemLists == SeqsUpTo(Items, MaxFuncs)

\* calling one item with the positional arguments a
Apply(item, a) ==
    CASE item = "inc"  -> RetTuple([i \in 1..Len(a) |-> a[i] + 1])
      [] item = "len"  -> PyInt(Len(a))
      [] item = "none" -> None

\* Callable.__init__: self.functions = the callable arguments, in order,
\* given here as their positions in the argument list
RECURSIVE functionsFrom(_, _)
functionsFrom(items, i) ==
    IF i > Len(items) THEN <<>>
    ELSE IF callable(items[i]) THEN <<i>> \o functionsFrom(items, i + 1)
    ELSE functionsFrom(items, i + 1)

functions(items) == functionsFrom(items, 1)

Reversed(q) == [i \in 1..Len(q) |-> q[Len(q) + 1 - i]]

\* Callable.__call__: for function in reversed(self.functions):
\*     args = function(*args) if args is not None else function()
\* `cur` is the current value of args (initially the tuple of call
\* arguments), `todo` the functions still to call.  function(*args) with an
\* int for args raises TypeError before the function is entered.
RECURSIVE Chain(_, _, _, _)
Chain(items, todo, cur, calls) ==
    IF todo = <<>> THEN [exc |-> "ok", ret |-> cur, calls |-> calls]
    ELSE IF cur # None /\ cur[1] # "tuple"
         THEN [exc |-> "TypeError", ret |-> None, calls |-> calls]
    ELSE LET a == IF cur = None THEN <<>> ELSE cur[2]
             r == Apply(items[Head(todo)], a)
         IN Chain(items, Tail(todo), r,
                  Append(calls, [fn |-> Head(todo), args |-> a, ret |-> r]))

\* the group's functions called in registration order instead of reversed
CallInOrder(items, args) ==
    Chain(items, functions(items), RetTuple(args), <<>>)

Call(items, args) ==
    Chain(items, Reversed(functions(items)), RetTuple(args), <<>>)

InitCallVars ==
    /\ cfuncs \in ItemLists
    /\ cargs \in ArgTuples
    /\ ccalls = <<>>
    /\ cresult = [exc |-> "new", ret |-> None]

\* group = Callable(*cfuncs); group(*cargs)
Invoke ==
    /\ cresult.exc = "new"
    /\ LET r == Call(cfuncs, cargs) IN
       /\ ccalls' = r.calls
       /\ cresult' = [exc |-> r.exc, ret |-> r.ret]
    /\ UNCHANGED <<cfuncs, cargs>>

NextCallVars == Invoke

--------------------------------------------------------------------------
(* Sessions (__Root) and widgets (BareWidget)                              *)

NodeIds == 1..MaxNodes

\* a slot holding None, and a slot holding x
Unset == <<>>
Some(x) == <<x>>
IsSet(slot) == slot # <<>>
Get(slot) == slot[1]

\* the widget classes: two subclasses of BareWidget
Classes == {"Button", "Label"}
\* self.__class__.__name__.lower()
ClassLower(c) == CASE c = "Button" -> "button"
                   [] c = "Label" -> "label"
\* where the set cls.__instances reads can live: in each widget class, or in
\* a base the widget classes share
Trackers == {"class", "base"}
\* the tree-path a session is given: ".root"
RootPath == ".root"
\* kw["name"]: absent, "" or "button"
NameArgs == {Unset, Some(""), Some("button")}
\* self.parent.tcl_varname + "!" + name + "."
TreePath(parentpath, name) == parentpath \o "!" \o name \o "."
\* the remaining configuration keywords: none, a flag value, a callable
Configs == {<<>>, <<"flag">>, <<"callable">>}
\* the flag names given to addflag
FlagArgs == {"text"}
\* parent arguments that are no node: None (0), and an object that is not a
\* HasChildren (-1)
NoParent == 0
PlainObject == -1
ParentArgs == NodeIds \cup {NoParent, PlainObject}

\* native operations, as the interpreter handle receives them
TkCreate(path) == [op |-> "call", key |-> <<"widget", path>>]
TkDestroy(slot) == [op |-> "call", key |-> <<"destroy", slot>>]
TkCreateCommand(k) == [op |-> "createcommand", key |-> k]
TkDeleteCommand(k) == [op |-> "deletecommand", key |-> k]

CmdKey(i) == <<"cmd", i>>
AliasKey(i) == <<"alias", i>>
AliasIds == {1}

TLog(name, node, slot, exc, cmds) ==
    [name |-> name, node |-> node, slot |-> slot, exc |-> exc, cmds |-> cmds]

Range(q) == {q[i] : i \in 1..Len(q)}
Nodes == {n \in NodeIds : kind[n] # "free"}
Fresh == IF Nodes = NodeIds THEN 0
         ELSE CHOOSE n \in NodeIds \ Nodes : \A m \in NodeIds \ Nodes : n <= m

InitTreeVars ==
    /\ kind = [n \in NodeIds |-> "free"]
    /\ built = [n \in NodeIds |-> FALSE]
    /\ held = [n \in NodeIds |-> FALSE]
    /\ tk = [n \in NodeIds |-> Unset]
    /\ varname = [n \in NodeIds |-> Unset]
    /\ commands = [n \in NodeIds |-> Unset]
    /\ flags = [n \in NodeIds |-> Unset]
    /\ children = [n \in NodeIds |-> Unset]
    /\ parent = [n \in NodeIds |-> Unset]
    /\ derived = [n \in NodeIds |-> FALSE]
    /\ instances = {}
    /\ cls = [n \in NodeIds |-> ""]
    /\ tracker \in Trackers
    /\ roots = <<>>
    /\ cmdseq = 0
    /\ tklog = <<>>
    /\ tlast = TLog("init", 0, "", "ok", <<>>)

\* the write-once setters: the exception `obj.slot = val` raises for the
\* slot's current content ("ok": assigned).  The flags setter tests
\* self.__flags, an attribute it never assigns, and stores into __tcl_flags.
SetterExc(slot, current) ==
    IF slot = "flags" THEN "ok"
    ELSE IF IsSet(current) THEN "InstantiatedError"
    ELSE "ok"

\* __Root(...) as written: _tkinter is not imported (and get_runningfile
\* reads the unbound name Iterable), so the constructor raises NameError
\* before its first assignment
NewRootAsWritten ==
    /\ tlast' = TLog("__Root", 0, "", "NameError", <<>>)
    /\ tklog' = <<>>
    /\ UNCHANGED <<kind, built, held, tk, varname, commands, flags, children,
                   parent, derived, instances, cls, tracker, roots, cmdseq>>

\* BareWidget(widgetname, parent) as written: HasParent.__init__ raises, at
\* the latest when self.parent = parent reads the missing _HasParent__parent
NewWidgetAsWritten(p) ==
    /\ p \in {NoParent, PlainObject} \/ (p \in Nodes /\ built[p] /\ held[p])
    /\ tlast' = IF p = NoParent THEN TLog("BareWidget", 0, "", "TypeError", <<>>)
                ELSE IF p = PlainObject
                THEN TLog("BareWidget", 0, "", "RuntimeError", <<>>)
                ELSE TLog("BareWidget", 0, "parent", "AttributeError", <<>>)
    /\ tklog' = <<>>
    /\ UNCHANGED <<kind, built, held, tk, varname, commands, flags, children,
                   parent, derived, instances, cls, tracker, roots, cmdseq>>

\* __Root.__init__ on a class providing the slots: the handle, the (empty)
\* command and flag registries, the child set; tcl_varname is not assigned.
\* `pooled`: the session is appended to _roots, as getroot does with the
\* session it creates.  The caller holds the new object.
NewRoot(pooled) ==
    /\ Fresh # 0
    /\ LET n == Fresh IN
       /\ kind' = [kind EXCEPT ![n] = "root"]
       /\ built' = [built EXCEPT ![n] = TRUE]
       /\ held' = [held EXCEPT ![n] = TRUE]
       /\ tk' = [tk EXCEPT ![n] = Some(n)]
       /\ commands' = [commands EXCEPT ![n] = Some(<<>>)]
       /\ flags' = [flags EXCEPT ![n] = Some({})]
       /\ children' = [children EXCEPT ![n] = Some({})]
       /\ roots' = IF pooled THEN Append(roots, n) ELSE roots
       /\ cls' = [cls EXCEPT ![n] = "Root"]
       /\ tlast' = TLog("Root", n, "", "ok", <<>>)
    /\ tklog' = <<>>
    /\ UNCHANGED <<varname, parent, derived, instances, tracker, cmdseq>>

\* node.slot = val from outside the constructors, through the setters
AssignSlot(n, slot) ==
    /\ n \in Nodes /\ built[n] /\ held[n]
    /\ slot \in {"tk", "tcl_varname", "commands", "flags", "children"}
       \/ (slot = "parent" /\ kind[n] = "widget")
    /\ LET cur == CASE slot = "tk" -> tk[n]
                    [] slot = "tcl_varname" -> varname[n]
                    [] slot = "commands" -> commands[n]
                    [] slot = "flags" -> flags[n]
                    [] slot = "children" -> children[n]
                    [] slot = "parent" -> parent[n]
           e == SetterExc(slot, cur)
       IN /\ tk' = IF slot = "tk" /\ e = "ok" THEN [tk EXCEPT ![n] = Some(0)] ELSE tk
          /\ varname' = IF slot = "tcl_varname" /\ e = "ok"
                        THEN [varname EXCEPT ![n] = Some(RootPath)] ELSE varname
          /\ commands' = IF slot = "commands" /\ e = "ok"
                         THEN [commands EXCEPT ![n] = Some(<<>>)] ELSE commands
          /\ flags' = IF slot = "flags" /\ e = "ok"
                      THEN [flags EXCEPT ![n] = Some({"other"})] ELSE flags
          /\ children' = IF slot = "children" /\ e = "ok"
                         THEN [children EXCEPT ![n] = Some({})] ELSE children
          /\ parent' = IF slot = "parent" /\ e = "ok"
                       THEN [parent EXCEPT ![n] = Some(n)] ELSE parent
          /\ tlast' = TLog("assign", n, slot, e, <<>>)
    /\ tklog' = <<>>
    /\ UNCHANGED <<kind, built, held, derived, instances, cls, tracker, roots, cmdseq>>

\* cls.getinstances() of the widget class c: the set the tracker holds for
\* it (every tracked widget when the classes share one set)
getinstances(c) ==
    IF tracker = "base" THEN instances ELSE {n \in instances : cls[n] = c}

\* the local name BareWidget.__init__ gives a widget of class c: kw["name"]
\* when it is truthy, else the lower-cased class name followed by str(index),
\* index = len(getinstances()), when that number is not zero
localname(c, nameArg) ==
    IF IsSet(nameArg) /\ Get(nameArg) # "" THEN Get(nameArg)
    ELSE LET index == Cardinality(getinstances(c)) IN
         ClassLower(c) \o (IF index # 0 THEN ToString(index) ELSE "")

isderived(nameArg) == ~(IsSet(nameArg) /\ Get(nameArg) # "")

\* c(widgetname, parent, name=..., **kw), c a widget class providing the
\* slots.  The steps of BareWidget.__init__ in order; the step that raises
\* ends the constructor and what was assigned before it stays.  The caller
\* holds the object the constructor returns; an object whose constructor
\* raised after HasParent.__init__ is referenced by its parent's child set
\* alone.  (An object whose constructor raised earlier is finalized at once:
\* HasTclCommands.__del__ raises TypeError on commands = None before any
\* native operation.)
NewWidgetOf(c, p, nameArg, kw) ==
    /\ p \in {NoParent, PlainObject} \/ (p \in Nodes /\ built[p] /\ held[p])
    /\ tklog' = IF p \in NodeIds /\ kw = <<>> /\ IsSet(varname[p])
                THEN <<TkCreate(TreePath(Get(varname[p]), localname(c, nameArg)))>>
                ELSE <<>>
    /\ IF p = NoParent
       THEN \* HasParent.__init__: getroot() without its argument
            /\ tlast' = TLog(c, 0, "", "TypeError", <<>>)
            /\ UNCHANGED <<kind, built, held, tk, varname, commands, flags,
                           children, parent, derived, instances, cls, roots, cmdseq>>
       ELSE IF p = PlainObject
       THEN \* HasParent.__init__: not isinstance(parent, HasChildren)
            /\ tlast' = TLog(c, 0, "", "RuntimeError", <<>>)
            /\ UNCHANGED <<kind, built, held, tk, varname, commands, flags,
                           children, parent, derived, instances, cls, roots, cmdseq>>
       ELSE /\ Fresh # 0
            /\ LET n == Fresh
                   \* HasTclCommands.__init__ reads `value`, never assigned,
                   \* in the first round of its loop over kw
                   e == IF kw # <<>> THEN "UnboundLocalError"
                        \* self.parent.tcl_varname + "!": None + str
                        ELSE IF ~IsSet(varname[p]) THEN "TypeError"
                        ELSE "ok"
               IN /\ kind' = [kind EXCEPT ![n] = "widget"]
                  /\ cls' = [cls EXCEPT ![n] = c]
                  /\ parent' = [parent EXCEPT ![n] = Some(p)]
                  /\ children' = [children EXCEPT
                        ![p] = Some(Get(@) \cup {n}),
                        ![n] = IF e = "ok" THEN Some({}) ELSE Unset]
                  /\ tk' = [tk EXCEPT ![n] = tk[p]]
                  /\ commands' = [commands EXCEPT ![n] = Some(<<>>)]
                  /\ flags' = [flags EXCEPT ![n] = Some({})]
                  /\ varname' = [varname EXCEPT ![n] =
                        IF e = "ok"
                        THEN Some(TreePath(Get(varname[p]), localname(c, nameArg)))
                        ELSE Unset]
                  /\ derived' = [derived EXCEPT ![n] = isderived(nameArg)]
                  /\ built' = [built EXCEPT ![n] = (e = "ok")]
                  /\ held' = [held EXCEPT ![n] = (e = "ok")]
                  /\ instances' = IF e = "ok" THEN instances \cup {n} ELSE instances
                  /\ tlast' = TLog(c, n, "", e, <<>>)
            /\ UNCHANGED <<roots, cmdseq>>
    /\ UNCHANGED tracker

\* a widget of either class
NewWidget(p, nameArg, kw) == \E c \in Classes : NewWidgetOf(c, p, nameArg, kw)

\* HasTclCommands.__del__: pop every key of commands and deletecommand it,
\* then the native destroy of the object's tcl_varname
deletes(keys) == [i \in 1..Len(keys) |-> TkDeleteCommand(keys[i])]
CommandsDel(n) == deletes(Get(commands[n])) \o <<TkDestroy(varname[n])>>

--------------------------------------------------------------------------
(* References and finalizers.  An object is deallocated when its last      *)
(* reference goes; the interpreter then runs the class's __del__ as the    *)
(* object's finalizer and ignores the exception it raises.  References to  *)
(* a node: the caller's, the pool's, the instance set's, its parent's      *)
(* child set, and the parent slot of each of its children.                 *)

\* the objects that exist, under the kinds K
Alive(K, n) == K[n] \in {"root", "widget"}

\* a reference to n exists, under the kinds K, the caller's references H and
\* the child sets Ch
Referenced(n, K, H, Ch) ==
    \/ H[n] \/ n \in instances \/ n \in Range(roots)
    \/ \E m \in NodeIds \ {n} :
          /\ Alive(K, m)
          /\ \/ IsSet(Ch[m]) /\ n \in Get(Ch[m])
             \/ parent[m] = Some(n)

\* the objects deallocated, in order, once n has lost a reference: n when
\* nothing refers to it, then its parent when n's parent slot was the last
\* reference to it, and so on upwards
RECURSIVE Cascade(_, _, _)
Cascade(n, K, H) ==
    IF ~Alive(K, n) \/ Referenced(n, K, H, children) THEN <<>>
    ELSE <<n>> \o (IF IsSet(parent[n])
                   THEN Cascade(Get(parent[n]), [K EXCEPT ![n] = "gone"], H)
                   ELSE <<>>)

\* the native operations of the finalizers of the objects q, in order.  A
\* widget's finalizer (BareWidget.__del__) ends in delinstance (KeyError: an
\* unreferenced widget is not tracked); a session's (__Root.__del__) finds
\* its child set empty and ends in delroot (ValueError: it is not pooled).
RECURSIVE FinalLog(_)
FinalLog(q) ==
    IF q = <<>> THEN <<>> ELSE CommandsDel(Head(q)) \o FinalLog(Tail(q))

\* the orders in which the objects S can be finalized
Orders(S) ==
    {q \in [1..Cardinality(S) -> S] :
        \A i, j \in 1..Cardinality(S) : i # j => q[i] # q[j]}

\* the kinds and the command registries once the objects S are deallocated
KindsWithout(S) == [n \in NodeIds |-> IF n \in S THEN "gone" ELSE kind[n]]
CommandsWithout(S) ==
    [n \in NodeIds |-> IF n \in S THEN Some(<<>>) ELSE commands[n]]

\* the objects the caller can still reach: through its own references, the
\* pool and the instance set, and from there through parent slots and child
\* sets
RECURSIVE ReachFrom(_, _)
ReachFrom(S, depth) ==
    IF depth = 0 THEN S
    ELSE ReachFrom(S \cup {m \in NodeIds :
                      /\ Alive(kind, m)
                      /\ \E x \in S : \/ IsSet(children[x]) /\ m \in Get(children[x])
                                      \/ parent[x] = Some(m)},
                   depth - 1)
Reachable ==
    ReachFrom({n \in NodeIds : /\ Alive(kind, n)
                               /\ (held[n] \/ n \in instances \/ n \in Range(roots))},
              MaxNodes)
\* the objects kept only by reference cycles (parent slot and child set)
Garbage == {n \in NodeIds : Alive(kind, n)} \ Reachable

\* `del name`: the caller gives up its reference to n
Drop(n) ==
    /\ n \in Nodes /\ held[n]
    /\ LET H == [held EXCEPT ![n] = FALSE]
           q == Cascade(n, kind, H)
       IN /\ held' = H
          /\ kind' = KindsWithout(Range(q))
          /\ commands' = CommandsWithout(Range(q))
          /\ tklog' = FinalLog(q)
    /\ tlast' = TLog("drop", n, "", "ok", <<>>)
    /\ UNCHANGED <<built, tk, varname, flags, children, parent, derived,
                   instances, cls, tracker, roots, cmdseq>>

\* a run of the cycle collector: the finalizers of the objects kept only by
\* reference cycles run, in the collector's order, and the objects go
Collect ==
    /\ Garbage # {}
    /\ \E q \in Orders(Garbage) : tklog' = FinalLog(q)
    /\ kind' = KindsWithout(Garbage)
    /\ commands' = CommandsWithout(Garbage)
    /\ tlast' = TLog("collect", 0, "", "ok", <<>>)
    /\ UNCHANGED <<built, held, tk, varname, flags, children, parent, derived,
                   instances, cls, tracker, roots, cmdseq>>

--------------------------------------------------------------------------

\* BareWidget.__del__, called on a widget the caller holds:
\* HasTclCommands.__del__, delinstance (KeyError when the widget is not
\* tracked), HasParent.__del__ (self.parent.remove: no node has it,
\* AttributeError); HasChildren.__del__ is not reached.
DestroyWidget(n) ==
    /\ n \in Nodes /\ kind[n] = "widget" /\ built[n] /\ held[n]
    /\ tklog' = CommandsDel(n)
    /\ commands' = [commands EXCEPT ![n] = Some(<<>>)]
    /\ instances' = instances \ {n}
    /\ tlast' = TLog("destroy", n, "",
                     IF n \in instances THEN "AttributeError" ELSE "KeyError",
                     Get(commands[n]))
    /\ UNCHANGED <<kind, built, held, tk, varname, flags, children, parent,
                   derived, cls, tracker, roots, cmdseq>>

\* delroot(root), the function the module-level name is bound to after
\* line 289: _roots.index(root) raises ValueError for an unpooled session
RemoveFromPool(pool, r) == SelectSeq(pool, LAMBDA x : x # r)
delrootExc(pool, r) == IF r \in Range(pool) THEN "ok" ELSE "ValueError"

\* delroot(n) called on a session the caller holds: the session leaves the
\* pool and nothing else happens to it
DelRoot(n) ==
    /\ n \in Nodes /\ kind[n] = "root" /\ held[n]
    /\ roots' = RemoveFromPool(roots, n)
    /\ tlast' = TLog("delroot", n, "", delrootExc(roots, n), <<>>)
    /\ tklog' = <<>>
    /\ UNCHANGED <<kind, built, held, tk, varname, commands, flags, children,
                   parent, derived, instances, cls, tracker, cmdseq>>

\* the arguments of getroot: None and the indexes 0 and 1
IndexArgs == {Unset, Some(0), Some(1)}

\* getroot(index): for None the first session of the pool, after an attempt
\* to construct one when the pool is empty (__Root(), NameError); for an int
\* _roots[index] (IndexError).  The caller holds the session returned.
GetRoot(index) ==
    /\ LET i == IF IsSet(index) THEN Get(index) + 1 ELSE 1
           e == IF i <= Len(roots) THEN "ok"
                ELSE IF IsSet(index) THEN "IndexError" ELSE "NameError"
       IN /\ held' = IF e = "ok" THEN [held EXCEPT ![roots[i]] = TRUE] ELSE held
          /\ tlast' = TLog("getroot", IF e = "ok" THEN roots[i] ELSE 0, "", e, <<>>)
    /\ tklog' = <<>>
    /\ UNCHANGED <<kind, built, tk, varname, commands, flags, children, parent,
                   derived, instances, cls, tracker, roots, cmdseq>>

\* __Root.__del__, called on a session the caller holds:
\* HasTclCommands.__del__, HasChildren.__del__ (empties the child set
\* through a tuple of the children; `del child` unbinds the loop variable),
\* delroot(self).  The children nothing else refers to are deallocated when
\* the tuple goes, and their finalizers run then, in an order that follows
\* the set's iteration order.
DestroyRoot(n) ==
    /\ n \in Nodes /\ kind[n] = "root" /\ held[n]
    /\ LET Ch == [children EXCEPT ![n] = Some({})]
           freed == {c \in Get(children[n]) :
                        Alive(kind, c) /\ ~Referenced(c, kind, held, Ch)}
       IN /\ \E q \in Orders(freed) : tklog' = CommandsDel(n) \o FinalLog(q)
          /\ kind' = KindsWithout(freed)
          /\ commands' = CommandsWithout(freed \cup {n})
          /\ children' = Ch
    /\ roots' = RemoveFromPool(roots, n)
    /\ tlast' = TLog("destroy", n, "", delrootExc(roots, n), Get(commands[n]))
    /\ UNCHANGED <<built, held, tk, varname, flags, parent, derived, instances, cls, tracker,
                   cmdseq>>

\* node.addcommand(group): the attribute is the singledispatch function
\* bound as a method, so it dispatches on type(node), finds no Callable and
\* raises NotImplementedError
AddCommand(n) ==
    /\ n \in Nodes /\ built[n] /\ held[n]
    /\ tlast' = TLog("addcommand", n, "", "NotImplementedError", <<>>)
    /\ tklog' = <<>>
    /\ UNCHANGED <<kind, built, held, tk, varname, commands, flags, children,
                   parent, derived, instances, cls, tracker, roots, cmdseq>>

\* the command names some registry holds: each keeps its callable, and so
\* the address its name was made from, in use
NamesInUse ==
    UNION {Range(Get(commands[m])) : m \in {x \in NodeIds : IsSet(commands[x])}}

\* the implementation registered for Callable (lines 101-112), applied to
\* the node: a name from id(func) and "__call__", createcommand, and the
\* name stored in commands.  id(func) is an address: the name is one never
\* generated before (i = cmdseq + 1) or one generated before whose callable
\* has been released since.
RegisterCommand(n, i) ==
    /\ n \in Nodes /\ built[n] /\ held[n]
    /\ \/ i = cmdseq + 1 /\ cmdseq < MaxCmds
       \/ i <= cmdseq /\ CmdKey(i) \notin NamesInUse
    /\ cmdseq' = IF i > cmdseq THEN i ELSE cmdseq
    /\ tklog' = <<TkCreateCommand(CmdKey(i))>>
    /\ commands' = [commands EXCEPT ![n] = Some(Append(Get(@), CmdKey(i)))]
    /\ tlast' = TLog("register", n, "", "ok", <<>>)
    /\ UNCHANGED <<kind, built, held, tk, varname, flags, children, parent,
                   derived, instances, cls, tracker, roots>>

\* node.addalias(alias, name): RuntimeError unless name is a key of
\* commands; else commands.update({alias: name})
AddAlias(n, a, name) ==
    /\ n \in Nodes /\ built[n] /\ held[n]
    /\ LET keys == Get(commands[n])
           e == IF name \in Range(keys) THEN "ok" ELSE "RuntimeError"
       IN /\ commands' = [commands EXCEPT ![n] =
                IF e = "ok" /\ AliasKey(a) \notin Range(keys)
                THEN Some(Append(keys, AliasKey(a))) ELSE @]
          /\ tlast' = TLog("addalias", n, "", e, <<>>)
    /\ tklog' = <<>>
    /\ UNCHANGED <<kind, built, held, tk, varname, flags, children, parent,
                   derived, instances, cls, tracker, roots, cmdseq>>

\* node.addflag(val): as addcommand, the attribute dispatches on type(node)
\* and raises NotImplementedError
AddFlag(n) ==
    /\ n \in Nodes /\ built[n] /\ held[n]
    /\ tlast' = TLog("addflag", n, "", "NotImplementedError", <<>>)
    /\ tklog' = <<>>
    /\ UNCHANGED <<kind, built, held, tk, varname, commands, flags, children,
                   parent, derived, instances, cls, tracker, roots, cmdseq>>

\* the implementation registered for str (lines 132-136), applied to the
\* node: self.flags[val] = ("-" + val,) + args
RegisterFlag(n, val) ==
    /\ n \in Nodes /\ built[n] /\ held[n]
    /\ flags' = [flags EXCEPT ![n] = Some(Get(@) \cup {val})]
    /\ tlast' = TLog("registerflag", n, "", "ok", <<>>)
    /\ tklog' = <<>>
    /\ UNCHANGED <<kind, built, held, tk, varname, commands, children, parent,
                   derived, instances, cls, tracker, roots, cmdseq>>

Few == Cardinality(Nodes) < MaxOwners

Small == Cardinality(Nodes) < MaxTreeNodes

\* construction and teardown of the ownership tree
NextTreeVars ==
    \/ \E pooled \in BOOLEAN : Small /\ NewRoot(pooled)
    \/ \E n \in NodeIds : kind[n] = "root" /\ AssignSlot(n, "tcl_varname")
    \/ \E p \in ParentArgs, nameArg \in NameArgs, kw \in Configs :
          Small /\ NewWidget(p, nameArg, kw)
    \/ \E n \in NodeIds : DestroyWidget(n)
    \/ \E n \in NodeIds : DestroyRoot(n)
    \/ \E n \in NodeIds : DelRoot(n)
    \/ \E index \in IndexArgs : GetRoot(index)
    \/ \E n \in NodeIds : Drop(n)
    \/ Collect

\* the names of the widgets of the sessions
NextNameVars ==
    \/ Few /\ NewRoot(FALSE)
    \/ \E n \in NodeIds : kind[n] = "root" /\ AssignSlot(n, "tcl_varname")
    \/ \E p \in ParentArgs : NewWidgetAsWritten(p)
    \/ \E c \in Classes, p \in ParentArgs, nameArg \in NameArgs :
          NewWidgetOf(c, p, nameArg, <<>>)
    \/ \E n \in NodeIds : DestroyWidget(n)

\* the write-once slots of the sessions and the widgets under them
NextSlotVars ==
    \/ NewRootAsWritten
    \/ \E p \in ParentArgs : NewWidgetAsWritten(p)
    \/ \E pooled \in BOOLEAN : Few /\ NewRoot(pooled)
    \/ \E n \in NodeIds, slot \in {"tk", "tcl_varname", "commands", "flags",
                                   "children", "parent"} : AssignSlot(n, slot)
    \/ \E p \in ParentArgs, kw \in Configs : Few /\ NewWidget(p, Unset, kw)

\* the command and flag registries of sessions and widgets, and their teardown
NextCmdVars ==
    \/ \E pooled \in BOOLEAN : Few /\ NewRoot(pooled)
    \/ \E n \in NodeIds : kind[n] = "root" /\ AssignSlot(n, "tcl_varname")
    \/ \E p \in ParentArgs : Few /\ NewWidget(p, Unset, <<>>)
    \/ \E n \in NodeIds : AddCommand(n)
    \/ \E n \in NodeIds, i \in 1..MaxCmds : RegisterCommand(n, i)
    \/ \E n \in NodeIds, a \in AliasIds, i \in 1..MaxCmds :
          AddAlias(n, a, CmdKey(i))
    \/ \E n \in NodeIds : AddFlag(n)
    \/ \E n \in NodeIds, val \in FlagArgs : RegisterFlag(n, val)
    \/ \E index \in IndexArgs : GetRoot(index)
    \/ Collect
    \/ \E n \in NodeIds : DestroyWidget(n)
    \/ \E n \in NodeIds : DestroyRoot(n)
    \/ \E n \in NodeIds : DelRoot(n)
    \/ \E n \in NodeIds : Drop(n)

--------------------------------------------------------------------------
(* Ratio: numerator, denominator and the lazily computed reduced form      *)

RatioInts == (0 - MaxRatio)..MaxRatio
\* the constructor's arguments: None or an integer
RatioArgs == {Unset} \cup {Some(i) : i \in RatioInts}

Abs(i) == IF i < 0 THEN 0 - i ELSE i

\* math.gcd: non-negative, gcd(0, 0) = 0
RECURSIVE gcdNat(_, _)
gcdNat(a, b) == IF b = 0 THEN a ELSE gcdNat(b, a % b)
gcd(a, b) == gcdNat(Abs(a), Abs(b))

\* a component setter that leaves the flag alone
invalidatedNever(val, cur, flag) == flag

\* the setters of numerator and denominator: if val != self.numerator:
\* self.__reduced = False
invalidated(val, cur, flag) == IF val # cur THEN FALSE ELSE flag

RLog(name, n, d, exc, ret) ==
    [name |-> name, n |-> n, d |-> d, exc |-> exc, ret |-> ret]

\* Ratio.__init__(numerator, denominator): None stands for 1; both
\* components are assigned through the setters, which clear the flag
InitRatioVars ==
    \E n \in RatioArgs, d \in RatioArgs :
        /\ rnum = IF IsSet(n) THEN Get(n) ELSE 1
        /\ rden = IF IsSet(d) THEN Get(d) ELSE 1
        /\ rreduced = FALSE
        /\ rlast = RLog("Ratio", 0, 0, "ok", <<>>)

\* R.numerator = val
SetNumerator(val) ==
    /\ rreduced' = invalidated(val, rnum, rreduced)
    /\ rnum' = val
    /\ rlast' = RLog("numerator", rnum, rden, "ok", <<>>)
    /\ UNCHANGED rden

\* R.denominator = val
SetDenominator(val) ==
    /\ rreduced' = invalidated(val, rden, rreduced)
    /\ rden' = val
    /\ rlast' = RLog("denominator", rnum, rden, "ok", <<>>)
    /\ UNCHANGED rnum

\* the state Ratio.reduce() leaves: cd = gcd(n, d); numerator //= cd raises
\* ZeroDivisionError for cd = 0 before anything is assigned
reduce(n, d, flag) ==
    LET cd == gcd(n, d) IN
    IF cd = 0 THEN [exc |-> "ZeroDivisionError", n |-> n, d |-> d, flag |-> flag]
    ELSE [exc |-> "ok", n |-> n \div cd, d |-> d \div cd, flag |-> TRUE]

\* R.reduce()
Reduce ==
    LET r == reduce(rnum, rden, rreduced) IN
    /\ rnum' = r.n /\ rden' = r.d /\ rreduced' = r.flag
    /\ rlast' = RLog("reduce", rnum, rden, r.exc, <<>>)

\* R.ratio: reduce() unless the flag is set, then the two components
GetRatio ==
    LET r == IF rreduced
             THEN [exc |-> "ok", n |-> rnum, d |-> rden, flag |-> rreduced]
             ELSE reduce(rnum, rden, rreduced)
    IN /\ rnum' = r.n /\ rden' = r.d /\ rreduced' = r.flag
       /\ rlast' = RLog("ratio", rnum, rden, r.exc,
                        IF r.exc = "ok" THEN <<r.n, r.d>> ELSE <<>>)

NextRatioVars ==
    \/ \E val \in RatioInts : SetNumerator(val)
    \/ \E val \in RatioInts : SetDenominator(val)
    \/ Reduce
    \/ GetRatio

--------------------------------------------------------------------------
(* The specifications: each subsystem runs with the others at rest *)

\* a Ratio that no operation touches: Ratio()
RatioAtRest == rnum = 1 /\ rden = 1 /\ InitRatioVars

\* no session and no widget: the module as imported (the tracker's place
\* matters to widgets alone)
TreeAtRest == tracker = "class" /\ InitTreeVars

InitVar == InitVarVars /\ cfuncs = <<>> /\ cargs = <<>> /\ InitCallVars /\ TreeAtRest
           /\ RatioAtRest
NextVar == NextVarVars /\ UNCHANGED <<callVars, treeVars, ratioVars>>
SpecVar == InitVar /\ [][NextVar]_vars

InitCall == InitCallVars /\ value = PyInt(0) /\ InitVarVars /\ TreeAtRest
            /\ RatioAtRest
NextCall == NextCallVars /\ UNCHANGED <<varVars, treeVars, ratioVars>>
SpecCall == InitCall /\ [][NextCall]_vars

InitTree == InitTreeVars /\ value = PyInt(0) /\ InitVarVars
            /\ cfuncs = <<>> /\ cargs = <<>> /\ InitCallVars /\ RatioAtRest
NextTree == NextTreeVars /\ UNCHANGED <<varVars, callVars, ratioVars>>
SpecTree == InitTree /\ [][NextTree]_vars

NextName == NextNameVars /\ UNCHANGED <<varVars, callVars, ratioVars>>
SpecName == InitTree /\ [][NextName]_vars

NextSlot == NextSlotVars /\ UNCHANGED <<varVars, callVars, ratioVars>>
SpecSlot == InitTree /\ [][NextSlot]_vars

NextCmd == NextCmdVars /\ UNCHANGED <<varVars, callVars, ratioVars>>
SpecCmd == InitTree /\ [][NextCmd]_vars

InitRatio == InitRatioVars /\ value = PyInt(0) /\ InitVarVars /\ TreeAtRest
             /\ cfuncs = <<>> /\ cargs = <<>> /\ InitCallVars
NextRatio == NextRatioVars /\ UNCHANGED <<varVars, callVars, treeVars>>
SpecRatio == InitRatio /\ [][NextRatio]_vars


--------------------------------------------------------------------------
(* Claims about the reactive subsystem (checked under SpecVar) *)

\* the Bounds object b has both bounds set
BothSet(b) == bmin[b] # None /\ bmax[b] # None
\* lo <= v <= hi for ordered values of one type
Within(lo, v, hi) == lo[2] <= v[2] /\ v[2] <= hi[2]
\* the latest operation was V.value = v with the Bounds b, both bounds set
\* and of v's type, as V's only observer
SoleBoundsWrite(b) ==
    /\ vlast.name = "write"
    /\ observers = <<BoundsKey(b)>>
    /\ BothSet(b)
    /\ Comparable(bmin[b], vlast.lo)
    /\ Comparable(vlast.lo, bmax[b])

\* C1: with a Bounds [lo, hi] (both bounds set) as the constraint on V, a
\* write V.value = v returns normally iff lo <= v <= hi and raises
\* RuntimeError otherwise; in both cases V.value = v afterwards (and the
\* written value is kept after every write, whatever the observers do).
C1_BoundsWrite ==
    /\ vlast.name = "write" => value = vlast.lo
    /\ \A b \in BoundsIds : SoleBoundsWrite(b) =>
          /\ (vlast.exc = "ok") <=> Within(bmin[b], vlast.lo, bmax[b])
          /\ ~Within(bmin[b], vlast.lo, bmax[b]) => vlast.exc = "RuntimeError"

\* C1 witness: a write outside [lo, hi] raised RuntimeError and was kept
C1_Witness ==
    \E b \in BoundsIds :
        /\ SoleBoundsWrite(b)
        /\ ~Within(bmin[b], vlast.lo, bmax[b])
        /\ vlast.exc = "RuntimeError"
        /\ value = vlast.lo

\* C2: every write to V.value invokes each registered observer exactly
\* once, in order, before the write returns or raises.
C2_AllObserversInvoked ==
    vlast.name = "write" => invoked = observers

\* C8: Bounds(V, lo, hi) with lo > hi raises, whatever V's current value
\* is, and the object is never handed to the caller.
C8_InvertedConstructionFails ==
    (/\ vlast.name = "Bounds"
     /\ Comparable(vlast.lo, vlast.hi)
     /\ vlast.lo[2] > vlast.hi[2])
    => /\ vlast.exc \in {"ValueError", "TypeError"}
       /\ bstate[vlast.obj] = "failed"

\* C8 witness: an inverted construction was attempted on an int-valued V
\* and raised ValueError
C8_Witness ==
    /\ vlast.name = "Bounds"
    /\ Comparable(vlast.lo, vlast.hi)
    /\ vlast.lo[2] > vlast.hi[2]
    /\ Comparable(vlast.lo, value)
    /\ vlast.exc = "ValueError"

\* the invariant of C9: minimum <= maximum whenever both bounds are set
C9_Ordered ==
    \A b \in BoundsIds : BothSet(b) =>
        Comparable(bmin[b], bmax[b]) /\ bmin[b][2] <= bmax[b][2]

\* the assignments of C9, read from the log after the assignment
C9_Assignments ==
    /\ vlast.name = "minimum" =>
         /\ ~IsInstanceOfTypeOf(vlast.lo, value) => vlast.exc = "TypeError"
         /\ (/\ IsInstanceOfTypeOf(vlast.lo, value)
             /\ Comparable(bmax[vlast.obj], vlast.lo)
             /\ bmax[vlast.obj][2] < vlast.lo[2]) => vlast.exc = "ValueError"
         /\ vlast.exc = "ok" => bmin[vlast.obj] = vlast.lo
    /\ vlast.name = "maximum" =>
         /\ ~IsInstanceOfTypeOf(vlast.hi, value) => vlast.exc = "TypeError"
         /\ (/\ IsInstanceOfTypeOf(vlast.hi, value)
             /\ Comparable(vlast.hi, bmin[vlast.obj])
             /\ vlast.hi[2] < bmin[vlast.obj][2]) => vlast.exc = "ValueError"
         /\ vlast.exc = "ok" => bmax[vlast.obj] = vlast.hi

\* a failed assignment to minimum or maximum changes neither bound
C9_FailedKeeps ==
    (vlast'.name \in {"minimum", "maximum"} /\ vlast'.exc # "ok")
    => (bmin' = bmin /\ bmax' = bmax)

\* C9: minimum <= maximum in every reachable state where both bounds are
\* set; an assignment of a value whose type is not that of V's current
\* value raises TypeError, one of the right type that would invert the
\* interval raises ValueError, and a failed assignment leaves both bounds
\* unchanged.
C9_BoundsInvariant ==
    /\ [](C9_Ordered /\ C9_Assignments)
    /\ [][C9_FailedKeeps]_vars

\* C9 witness: an assignment to minimum above the maximum was refused with
\* ValueError on a constraint whose bounds are both set
C9_Witness ==
    /\ vlast.name = "minimum"
    /\ vlast.exc = "ValueError"
    /\ BothSet(vlast.obj)
    /\ bmax[vlast.obj][2] < vlast.lo[2]

--------------------------------------------------------------------------
(* Claims about the callback group (checked under SpecCall) *)

\* the group's callables, last-registered first
C10_Order == Reversed(functions(cfuncs))
\* a return value that function(*args) / function() can pass on
C10_PassableRet(r) == r = None \/ r[1] = "tuple"
\* the positional arguments the next callable receives from a return value
C10_Unpacked(r) == IF r = None THEN <<>> ELSE r[2]

\* C10 as stated: the invocation calls every callable of the group exactly
\* once, last-registered first, hands the call arguments to the first one
\* called and each return on to the next (a returned tuple as the next
\* callable's arguments), and returns the result of the first-registered
\* callable.
C10_ReverseChainAlways ==
    cresult.exc # "new" =>
        /\ cresult.exc = "ok"
        /\ Len(ccalls) = Len(C10_Order)
        /\ \A i \in 1..Len(ccalls) : ccalls[i].fn = C10_Order[i]
        /\ Len(ccalls) >= 1 => ccalls[1].args = cargs
        /\ \A i \in 2..Len(ccalls) :
              C10_PassableRet(ccalls[i-1].ret)
              => ccalls[i].args = C10_Unpacked(ccalls[i-1].ret)
        /\ Len(ccalls) >= 1 => cresult.ret = ccalls[Len(ccalls)].ret

\* C10 amended: the callables are called last-registered first, each at most
\* once; the first gets the call arguments and each later one the items of
\* the previous return as its positional arguments (none for None).  When
\* every return but the last is None or a tuple, all are called and the
\* result is the first-registered callable's return; a return that is not
\* iterable raises TypeError and the remaining callables are not called.
C10_ReverseChain ==
    cresult.exc # "new" =>
        /\ cresult.exc \in {"ok", "TypeError"}
        /\ Len(ccalls) <= Len(C10_Order)
        /\ \A i \in 1..Len(ccalls) :
              /\ ccalls[i].fn = C10_Order[i]
              /\ ccalls[i].ret = Apply(cfuncs[ccalls[i].fn], ccalls[i].args)
        /\ Len(ccalls) >= 1 => ccalls[1].args = cargs
        /\ \A i \in 2..Len(ccalls) :
              /\ C10_PassableRet(ccalls[i-1].ret)
              /\ ccalls[i].args = C10_Unpacked(ccalls[i-1].ret)
        /\ cresult.exc = "ok" =>
              /\ Len(ccalls) = Len(C10_Order)
              /\ cresult.ret = IF ccalls = <<>> THEN RetTuple(cargs)
                               ELSE ccalls[Len(ccalls)].ret
        /\ cresult.exc = "TypeError" =>
              /\ 1 <= Len(ccalls) /\ Len(ccalls) < Len(C10_Order)
              /\ ~C10_PassableRet(ccalls[Len(ccalls)].ret)

\* C10 witness: the group [f, g] invoked with (1,) called g(1), then f with
\* the item of g's return, and returned f's result
C10_Witness ==
    /\ cresult.exc = "ok"
    /\ cfuncs = <<"none", "inc">>
    /\ cargs = <<1>>
    /\ Len(ccalls) = 2
    /\ ccalls[1] = [fn |-> 2, args |-> <<1>>, ret |-> RetTuple(<<2>>)]
    /\ ccalls[2] = [fn |-> 1, args |-> <<2>>, ret |-> None]
    /\ cresult.ret = None


--------------------------------------------------------------------------
(* Claims about sessions and widgets *)

\* the live widgets: those the instance tracker holds
Live == instances
\* the nodes below n in the ownership tree, through the child sets
RECURSIVE DescendantsUpTo(_, _)
DescendantsUpTo(n, depth) ==
    IF depth = 0 \/ ~IsSet(children[n]) THEN {}
    ELSE Get(children[n])
         \cup UNION {DescendantsUpTo(c, depth - 1) : c \in Get(children[n])}
Descendants(n) == DescendantsUpTo(n, MaxNodes)
\* the positions of an operation in a list of native operations
Positions(log, x) == {i \in 1..Len(log) : log[i] = x}
\* x was issued, and issued before every y
IssuedBefore(log, x, y) ==
    /\ Positions(log, x) # {}
    /\ \A i \in Positions(log, x), j \in Positions(log, y) : i < j
\* the deletecommand operations of a list of native operations
Deletes(log) == SelectSeq(log, LAMBDA x : x.op = "deletecommand")
\* the keys of a command registry that were given to createcommand
Registered(keys) == SelectSeq(keys, LAMBDA k : k[1] = "cmd")

\* C3: no two live widgets of the class under the same parent, both with
\* derived names, have the same name (an index held by a live instance is
\* never handed out again).
C3_DerivedNamesUnique ==
    \A a \in Live, b \in Live :
        (a # b /\ parent[a] = parent[b] /\ derived[a] /\ derived[b])
            => varname[a] # varname[b]

\* C4: destroying a widget with a non-empty child set issues the native
\* destroy of every live descendant before the widget's own native destroy.
C4_ChildrenDestroyedFirst ==
    (/\ tlast.name = "destroy"
     /\ kind[tlast.node] = "widget"
     /\ Get(children[tlast.node]) # {})
    => \A d \in Descendants(tlast.node) \cap Live :
           IssuedBefore(tklog, TkDestroy(varname[d]),
                        TkDestroy(varname[tlast.node]))

\* C5: destroying a session with K registered commands issues exactly K
\* deletecommand operations and then exactly one destroy of the session's
\* variable name, all deletes before the destroy.
C5_SessionTeardown ==
    (tlast.name = "destroy" /\ kind[tlast.node] = "root")
    => LET K == Len(Registered(tlast.cmds)) IN
       /\ Len(Deletes(tklog)) = K
       /\ Len(tklog) = K + 1
       /\ tklog[Len(tklog)] = TkDestroy(varname[tlast.node])
       /\ \A i \in 1..(Len(tklog) - 1) : tklog[i].op = "deletecommand"

\* C6: when a node is destroyed every live descendant is torn down too: it
\* is no longer tracked, its commands are deleted and its own native
\* destroy has been issued.
C6_SubtreeTornDown ==
    [][tlast'.name = "destroy" =>
          \A d \in Descendants(tlast'.node) \cap Live :
              /\ d \notin instances'
              /\ commands'[d] = Some(<<>>)
              /\ Positions(tklog', TkDestroy(varname[d])) # {}]_vars

\* the content of a write-once slot of node n
SlotOf(n, slot) ==
    CASE slot = "tk" -> tk[n]
      [] slot = "tcl_varname" -> varname[n]
      [] slot = "commands" -> commands[n]
      [] slot = "flags" -> flags[n]
      [] slot = "children" -> children[n]
      [] slot = "parent" -> parent[n]

\* C7: for every write-once slot, the first assignment on a fresh node
\* succeeds, and an assignment to a slot that is set raises
\* InstantiatedError and leaves the slot as it was.
C7_WriteOnce ==
    [][/\ \A n \in NodeIds, slot \in {"tk", "tcl_varname", "commands", "flags",
                                       "children", "parent"} :
             (/\ tlast'.name = "assign" /\ tlast'.node = n /\ tlast'.slot = slot
              /\ IsSet(SlotOf(n, slot)))
             => /\ tlast'.exc = "InstantiatedError"
                /\ SlotOf(n, slot)' = SlotOf(n, slot)
       /\ (/\ tlast'.slot # ""
           /\ tlast'.name = "assign" => ~IsSet(SlotOf(tlast'.node, tlast'.slot)))
          => tlast'.exc = "ok"]_vars

\* the live instances of exactly the class c
C11_LiveOf(c) == {n \in Live : cls[n] = c}

\* the local name of the naming rule for a widget of class c: the explicit
\* name when one is supplied, used as it is; otherwise the lower-cased class
\* name followed by the number of live instances of exactly that class,
\* nothing appended when that number is zero
C11_Local(c, nameArg) ==
    IF IsSet(nameArg) THEN Get(nameArg)
    ELSE (CASE c = "Button" -> "button" [] c = "Label" -> "label")
         \o (IF Cardinality(C11_LiveOf(c)) = 0 THEN ""
             ELSE ToString(Cardinality(C11_LiveOf(c))))

\* C11: constructing a widget under a parent that has a tree-path name gives
\* a widget whose tree-path name is the parent's name + "!" + localname +
\* ".", localname being the explicit name when one is supplied and otherwise
\* the lower-cased class name followed by the number of live instances of
\* exactly that class (nothing for zero); this for the widget class as the
\* repository defines it and for the widget classes that provide the slots.
C11_TreePathName ==
    [][/\ \A p \in NodeIds :
             (NewWidgetAsWritten(p) /\ IsSet(varname[p])) => tlast'.exc = "ok"
       /\ \A c \in Classes, p \in NodeIds, nameArg \in NameArgs :
             (NewWidgetOf(c, p, nameArg, <<>>) /\ IsSet(varname[p]))
             => /\ tlast'.exc = "ok"
                /\ varname'[tlast'.node] =
                      Some(Get(varname[p]) \o "!" \o C11_Local(c, nameArg) \o ".")]_vars

\* C12: when an object is destroyed the names given to deletecommand are
\* exactly the names that were given to createcommand for it and not yet
\* deleted, each once (none for an alias key), all before the object's own
\* native destroy.
C12_DeletesWhatWasCreated ==
    tlast.name = "destroy" =>
        LET created == Range(Registered(tlast.cmds)) IN
        /\ \A k \in created :
              Cardinality(Positions(tklog, TkDeleteCommand(k))) = 1
        /\ \A i \in 1..Len(tklog) :
              tklog[i].op = "deletecommand" => tklog[i].key \in created
        /\ \A i \in 1..Len(tklog), j \in 1..Len(tklog) :
              (/\ tklog[i].op = "deletecommand"
               /\ tklog[j] = TkDestroy(varname[tlast.node])) => i < j

\* the keys of a registry that construction from the configuration kw must
\* produce: a callable entry is registered and aliased under its key, any
\* other entry is stored as a flag under its key
C13_Classified(kw, cmds, flgs) ==
    /\ kw = <<"flag">> => cmds = Some(<<>>) /\ flgs = Some({"flag"})
    /\ kw = <<"callable">> =>
          /\ flgs = Some({})
          /\ IsSet(cmds) /\ Len(Get(cmds)) = 2
          /\ Len(Registered(Get(cmds))) = 1
          /\ \E a \in AliasIds : AliasKey(a) \in Range(Get(cmds))
    /\ kw = <<>> => cmds = Some(<<>>) /\ flgs = Some({})

\* C13: every key of commands is a name generated by registering a callable
\* group and every key of flags comes from a non-callable configuration
\* value; construction from keyword arguments classifies each key exactly
\* one way (callable: registered and aliased; anything else: a flag).
C13_RegistryClassification ==
    /\ [](\A n \in Nodes :
            /\ IsSet(commands[n]) =>
                  \A k \in Range(Get(commands[n])) : k[1] = "cmd"
            /\ IsSet(flags[n]) => Get(flags[n]) \subseteq {"flag"})
    /\ [][\A p \in NodeIds, nameArg \in NameArgs, kw \in Configs :
             NewWidget(p, nameArg, kw)
             => C13_Classified(kw, commands'[tlast'.node],
                               flags'[tlast'.node])]_vars

\* the creation instruction of a widget at `path` built with configuration
\* kw: (widget kind, tree-path name) and the flag tuple of a non-callable
\* entry; a callable entry adds no token
C14_Creation(path, kw) ==
    [op |-> "call",
     key |-> <<"widget", path>> \o (IF kw = <<"flag">> THEN <<"-flag">> ELSE <<>>)]

\* C14: constructing a widget issues exactly one native creation
\* instruction: (widget kind, tree-path name) followed by the flag tuples of
\* the non-callable configuration entries, nothing for callable entries.
C14_OneCreationInstruction ==
    [][\A p \in NodeIds, nameArg \in NameArgs, kw \in Configs :
          (NewWidget(p, nameArg, kw) /\ IsSet(varname[p]))
          => tklog' = <<C14_Creation(
                          Get(varname[p]) \o "!"
                             \o C11_Local(cls'[tlast'.node], nameArg) \o ".",
                          kw)>>]_vars

\* C15: destroying a session deletes its commands, destroys every child
\* widget, issues the native destroy of the session's name and removes the
\* session from the pool, in that order; it completes for a pooled and for
\* an explicitly constructed session alike, and afterwards the session is
\* not in the pool and the other pool entries are as before.
C15_SessionDestroyOrder ==
    [][\A n \in NodeIds :
          (tlast'.name = "destroy" /\ tlast'.node = n /\ kind[n] = "root")
          => /\ tlast'.exc = "ok"
             /\ roots' = SelectSeq(roots, LAMBDA r : r # n)
             /\ \A i \in 1..Len(tklog') :
                   tklog'[i].op = "deletecommand" => i <= Len(Get(commands[n]))
             /\ tklog'[Len(tklog')] = TkDestroy(varname[n])
             /\ \A d \in Descendants(n) \cap Live :
                   IssuedBefore(tklog', TkDestroy(varname[d]),
                                TkDestroy(varname[n]))]_vars

--------------------------------------------------------------------------
(* Claims about Ratio (checked under SpecRatio) *)

\* the greatest common divisor of two integers that are not both zero: the
\* largest positive integer dividing both
C16_Divides(h, x) == Abs(x) % h = 0
C16_CommonDivisors(n, d) ==
    {h \in 1..(Abs(n) + Abs(d)) : C16_Divides(h, n) /\ C16_Divides(h, d)}
C16_Gcd(n, d) ==
    CHOOSE g \in C16_CommonDivisors(n, d) :
        \A h \in C16_CommonDivisors(n, d) : h <= g

\* C16: for integer components n, d not both zero the ratio accessor
\* returns (n div g, d div g) with g = gcd(n, d); whenever the reduced flag
\* is set the stored components are coprime; the flag is clear after a
\* write that changes a component.
C16_RatioReduced ==
    /\ (rlast.name = "ratio" /\ ~(rlast.n = 0 /\ rlast.d = 0)) =>
          /\ rlast.exc = "ok"
          /\ rlast.ret = <<rlast.n \div C16_Gcd(rlast.n, rlast.d),
                           rlast.d \div C16_Gcd(rlast.n, rlast.d)>>
    /\ rreduced => (~(rnum = 0 /\ rden = 0) /\ C16_Gcd(rnum, rden) = 1)
    /\ (/\ rlast.name \in {"numerator", "denominator"}
        /\ (rnum # rlast.n \/ rden # rlast.d)) => ~rreduced

\* C16 witness: the accessor on -4/2 returned (-2, 1) and left the flag set
C16_Witness ==
    /\ rlast = RLog("ratio", 0 - 4, 2, "ok", <<0 - 2, 1>>)
    /\ rnum = 0 - 2 /\ rden = 1
    /\ rreduced

--------------------------------------------------------------------------
(* Claims about failing constructions *)

\* C17: widget construction is all-or-nothing: when it raises, the parent's
\* child set, the class's instance set and the commands created in the
\* interpreter are as before the call.
C17_ConstructionAllOrNothing ==
    [][\A p \in ParentArgs, nameArg \in NameArgs, kw \in Configs :
          (NewWidget(p, nameArg, kw) /\ tlast'.exc # "ok")
          => /\ p \in NodeIds => children'[p] = children[p]
             /\ instances' = instances
             /\ \A i \in 1..Len(tklog') : tklog'[i].op # "createcommand"]_vars

\* v satisfies the bounds the Bounds object b was given (a bound that was
\* not supplied constrains nothing)
C18_InRange(b, v) ==
    /\ bmin[b] # None => (Comparable(bmin[b], v) /\ bmin[b][2] <= v[2])
    /\ bmax[b] # None => (Comparable(v, bmax[b]) /\ v[2] <= bmax[b][2])

\* C18: a Bounds construction that raises leaves V's observers as they were
\* before the call; and a write that is in range for every successfully
\* constructed Bounds on V, also one given a single bound or none, does
\* not fail.
C18_BoundsAllOrNothing ==
    /\ [][(vlast'.name = "Bounds" /\ vlast'.exc # "ok")
             => observers' = observers]_vars
    /\ []((/\ vlast.name = "write"
           /\ \A i \in 1..Len(observers) :
                 \E b \in BoundsIds :
                    /\ observers[i] = BoundsKey(b)
                    /\ bstate[b] = "live"
                    /\ C18_InRange(b, vlast.lo))
          => vlast.exc = "ok")

\* C19: whenever a Bounds construction, an assignment to minimum or
\* maximum, or a write to V returns without raising, every constraint on V
\* with both bounds set has minimum <= V.value <= maximum.
C19_IntervalAlwaysChecked ==
    (vlast.name \in {"Bounds", "minimum", "maximum", "write"} /\ vlast.exc = "ok")
    => \A b \in BoundsIds :
          (/\ bstate[b] = "live" /\ BothSet(b)
           /\ \E i \in 1..Len(observers) : observers[i] = BoundsKey(b))
          => /\ Comparable(bmin[b], value) /\ Comparable(value, bmax[b])
             /\ Within(bmin[b], value, bmax[b])

\* C20: widget construction fails with the structural error (RuntimeError)
\* exactly when the parent does not support child ownership or handle
\* access; without a parent the default session is used (the first of the
\* pool, created only when the pool is empty) and the widget is added to
\* that session's child set.
C20_ParentResolution ==
    [][\A p \in ParentArgs, nameArg \in NameArgs, kw \in Configs :
          NewWidget(p, nameArg, kw)
          => /\ (tlast'.exc = "RuntimeError") <=> (p = PlainObject)
             /\ p = NoParent =>
                   /\ tlast'.node \in NodeIds
                   /\ roots' # <<>>
                   /\ roots # <<>> => roots' = roots
                   /\ IsSet(children'[roots'[1]])
                   /\ tlast'.node \in Get(children'[roots'[1]])]_vars

====
